---- MODULE Spec2Model ----
(***************************************************************************)
(* Model of fairseq's plugin registries:                                   *)
(*   fairseq/registry.py        setup_registry, build_x, register_x        *)
(*   fairseq/tasks/__init__.py  setup_task, register_task                  *)
(*                                                                         *)
(* Python values are modelled as follows.  Strings are TLA+ strings, the   *)
(* registry name handed to setup_registry is a sequence of one-character   *)
(* strings (so that startswith/slicing/replace are computed), None is the  *)
(* value None below, classes and dataclasses are referred to by an         *)
(* identity (a string) and described by the tables ClassName, Bases,       *)
(* BuilderAttrs, Conforms, Defaults.                                       *)
(***************************************************************************)
EXTENDS Integers, Sequences, FiniteSets, TLC

VARIABLES
    REGISTRIES,               \* registry.py:14   normalized name -> catalog entry
    regs,                     \* registry.py:26-28 + closure cells of each created registry
    TASK_DATACLASS_REGISTRY,  \* tasks/__init__.py:19
    TASK_REGISTRY,            \* tasks/__init__.py:20
    TASK_CLASS_NAMES,         \* tasks/__init__.py:21
    cs,                       \* ConfigStore.instance(): <<group, name>> -> node
    last                      \* the last call: its arguments and its outcome

vars == <<REGISTRIES, regs, TASK_DATACLASS_REGISTRY, TASK_REGISTRY,
          TASK_CLASS_NAMES, cs, last>>

genericVars == <<REGISTRIES, regs>>
taskVars == <<TASK_DATACLASS_REGISTRY, TASK_REGISTRY, TASK_CLASS_NAMES>>

None == "None"

\* ------------------------------------------------------------------ bounds
\* At most this many registrations succeed, over all registries.
MaxEntries == 2

\* ------------------------------------------------------------------ inputs
\* Choice names handed to register / register_task; "" is the empty string.
Choices == {"", "a"}
\* Choice names a configuration value may carry ("zz" is never registered).
CfgChoices == Choices \cup {"zz"}

\* Implementation classes, by identity.  K1 and K2 are two different classes
\* that share the class identifier (__name__) "A".
Classes == {"K1", "K2", "K3"}

ClassName(cls) ==
    CASE cls = "K1" -> "A"
      [] cls = "K2" -> "A"
      [] cls = "K3" -> "B"

\* The base interfaces a class extends (K2 extends none).
Bases(cls) ==
    CASE cls = "K1" -> {"Base", "FairseqTask"}
      [] cls = "K2" -> {}
      [] cls = "K3" -> {"Base", "FairseqTask"}

\* The registries (by normalized name) for which a class has a build_<name>
\* attribute.
BuilderAttrs(cls) ==
    CASE cls = "K1" -> {<<"o", "_", "p">>}
      [] cls = "K2" -> {}
      [] cls = "K3" -> {}

\* The (base_class, default, required) arguments handed to setup_registry.
RegistryArgs ==
    { [base_class |-> None,   default |-> None, required |-> TRUE],
      [base_class |-> "Base", default |-> "a",  required |-> FALSE] }

\* Dataclasses (schemas), by identity.  D1 extends FairseqDataclass, DX does not.
Dataclasses == {"D1", "DX"}
Fields == {"x", "y"}

Conforms(dc) == dc = "D1"

\* The declared defaults of a dataclass.
Defaults(dc) == [f \in Fields |-> IF f = "x" THEN 1 ELSE 2]

\* Caller-supplied fields of a configuration value.
CallerFields ==
    { [f \in S |-> IF f = "x" THEN 5 ELSE 7] : S \in {{}, {"x"}} }

\* Names handed to setup_registry: two spellings of one registry, and a name
\* without the leading "--".
\* The names of the two registries of the specification SpecTwo; they
\* normalize to different names.
TwoRegistryNames ==
    { <<"-", "-", "o", "_", "p">>,
      <<"-", "-", "c">> }

\* What the two registries of SpecTwo are set up with.
TwoRegistryArgs ==
    { [base_class |-> None, default |-> None, required |-> TRUE] }

\* The register_task calls of SpecTwo.
TwoTaskCalls == [name : {"a"}, dataclass : {None, "D1"}, cls : {"K1"}]

RegistryNames ==
    { <<"-", "-", "o", "-", "p">>,
      <<"-", "-", "o", "_", "p">>,
      <<"o", "p">> }

\* ------------------------------------------------------------ Python helpers
\* Python truthiness of a choice: None and the empty string are falsy.
Truthy(choice) == choice /= None /\ choice /= ""

issubclass(cls, base) == base \in Bases(cls)

EmptyDict == [k \in {} |-> None]

DictSet(d, k, v) == [j \in DOMAIN d \cup {k} |-> IF j = k THEN v ELSE d[j]]

\* registry_name.startswith("--")
StartsWithDashes(registry_name) ==
    /\ Len(registry_name) >= 2
    /\ registry_name[1] = "-"
    /\ registry_name[2] = "-"

\* registry_name[2:].replace("-", "_")
Normalize(registry_name) ==
    [i \in 1..(Len(registry_name) - 2) |->
        IF registry_name[i + 2] = "-" THEN "_" ELSE registry_name[i + 2]]

\* ------------------------------------------------------- configuration values
\* dc(): a fresh instance of the dataclass, every field at its default; the
\* _name field of a FairseqDataclass defaults to None.
NewInstance(dc) == [shape |-> "dataclass", dc |-> dc, _name |-> None,
                    fields |-> Defaults(dc)]

\* merge_with_parent(dc(), cfg): the schema defaults, overridden by every field
\* the caller supplies.
merge_with_parent(inst, cfg) ==
    [shape |-> "DictConfig", dc |-> inst.dc, _name |-> cfg._name,
     fields |-> [f \in DOMAIN inst.fields \cup DOMAIN cfg.fields |->
                    IF f \in DOMAIN cfg.fields THEN cfg.fields[f]
                    ELSE inst.fields[f]]]

\* dc.from_namespace(cfg): a fresh instance whose public fields are taken from
\* the attributes of the flat bag, where it has them.
from_namespace(dc, cfg) ==
    [shape |-> "dataclass", dc |-> dc, _name |-> None,
     fields |-> [f \in DOMAIN Defaults(dc) |->
                    IF f \in DOMAIN cfg.fields THEN cfg.fields[f]
                    ELSE Defaults(dc)[f]]]

\* The configuration values handed to build_x.  A DictConfig carries _name, a
\* str is the choice itself, a Namespace carries the attribute named after the
\* registry (attr = None: the bag has no such attribute).
DictConfigs ==
    [shape : {"DictConfig"}, _name : CfgChoices \cup {None}, fields : CallerFields]
Strs == [shape : {"str"}, value : CfgChoices]
Namespaces ==
    [shape : {"Namespace"}, attr : CfgChoices \cup {None}, fields : CallerFields]
BuildCfgs == DictConfigs \cup Strs \cup Namespaces

\* The configuration values handed to setup_task: task is the legacy attribute
\* (None: absent or not a string), _name the structured choice field.
TaskCfgs ==
    [shape : {"TaskCfg"}, task : CfgChoices \cup {None},
     _name : CfgChoices \cup {None}, fields : CallerFields]

NoCall == [entry |-> "none"]

\* ------------------------------------------------------------------- errors
\* The exceptions the two files raise, by class and message.
AssertionError == "AssertionError"
DuplicateChoiceError == "ValueError: Cannot register duplicate"
DuplicateClassNameError == "ValueError: duplicate class name"
MustExtendError == "ValueError: must extend"
DataclassMustExtendError == "ValueError: Dataclass must extend FairseqDataclass"
RequiredError == "ValueError: is required!"
KeyError == "KeyError"
CouldNotInferTaskError == "AssertionError: Could not infer task type"

\* The node register publishes in the ConfigStore: dataclass() with _name set.
StoreNode(dataclass, name) ==
    [dc |-> dataclass, _name |-> name, fields |-> Defaults(dataclass)]

TaskGroup == <<"t", "a", "s", "k">>

\* ------------------------------------------------------------ registry.py
\* What setup_registry returns for a new registry (line 110).
Closures == "build_x, register_x, REGISTRY, DATACLASS_REGISTRY"

\* setup_registry without the test of line 31: the catalog entry is replaced.
setup_registry_replace(CAT, heap, registry_name, base_class, default, required) ==
    IF ~StartsWithDashes(registry_name)
    THEN [REGISTRIES |-> CAT, regs |-> heap, ret |-> None, err |-> AssertionError]
    ELSE [REGISTRIES |->
              DictSet(CAT, Normalize(registry_name),
                      [registry |-> Len(heap) + 1, default |-> default,
                       dataclass_registry |-> Len(heap) + 1]),
          regs |-> Append(heap,
              [registry_name |-> Normalize(registry_name),
               base_class |-> base_class,
               required |-> required, REGISTRY |-> EmptyDict,
               REGISTRY_CLASS_NAMES |-> {},
               DATACLASS_REGISTRY |-> EmptyDict]),
          ret |-> Closures, err |-> None]

\* setup_registry: the catalog and the heap of registries after the call, what
\* it returns (Closures or None) and what it raises.  A registry's dictionaries
\* are referred to by their place in the heap.
setup_registry(CAT, heap, registry_name, base_class, default, required) ==
    IF ~StartsWithDashes(registry_name)
    THEN [REGISTRIES |-> CAT, regs |-> heap, ret |-> None, err |-> AssertionError]
    ELSE LET name == Normalize(registry_name)
             id == Len(heap) + 1
         IN IF name \in DOMAIN CAT
            THEN [REGISTRIES |-> CAT, regs |-> heap, ret |-> None, err |-> None]
            ELSE [REGISTRIES |->
                      DictSet(CAT, name, [registry |-> id, default |-> default,
                                          dataclass_registry |-> id]),
                  regs |-> Append(heap,
                      [registry_name |-> name, base_class |-> base_class,
                       required |-> required, REGISTRY |-> EmptyDict,
                       REGISTRY_CLASS_NAMES |-> {},
                       DATACLASS_REGISTRY |-> EmptyDict]),
                  ret |-> Closures, err |-> None]

\* register_x_cls without the test of line 74: a registered choice is rebound.
register_x_cls_rebind(R, name, dataclass, cls) ==
    [REGISTRY |-> DictSet(R.REGISTRY, name, cls),
     REGISTRY_CLASS_NAMES |-> R.REGISTRY_CLASS_NAMES,
     DATACLASS_REGISTRY |->
         IF dataclass /= None /\ Conforms(dataclass)
         THEN DictSet(R.DATACLASS_REGISTRY, name, dataclass)
         ELSE R.DATACLASS_REGISTRY,
     stored |-> dataclass /= None /\ Conforms(dataclass), err |-> None]

\* register_x_cls without the test of line 84: any class is accepted.
register_x_cls_anyclass(R, name, dataclass, cls) ==
    IF name \in DOMAIN R.REGISTRY
    THEN [REGISTRY |-> R.REGISTRY,
          REGISTRY_CLASS_NAMES |-> R.REGISTRY_CLASS_NAMES,
          DATACLASS_REGISTRY |-> R.DATACLASS_REGISTRY,
          stored |-> FALSE, err |-> DuplicateChoiceError]
    ELSE [REGISTRY |-> DictSet(R.REGISTRY, name, cls),
          REGISTRY_CLASS_NAMES |-> R.REGISTRY_CLASS_NAMES,
          DATACLASS_REGISTRY |->
              IF dataclass /= None /\ Conforms(dataclass)
              THEN DictSet(R.DATACLASS_REGISTRY, name, dataclass)
              ELSE R.DATACLASS_REGISTRY,
          stored |-> dataclass /= None /\ Conforms(dataclass), err |-> None]

\* register_x_cls with the dataclass recorded before the class is tested
\* against base_class (lines 94-101 moved before line 84).
register_x_cls_schema_first(R, name, dataclass, cls) ==
    LET raise(e) == [REGISTRY |-> R.REGISTRY,
                     REGISTRY_CLASS_NAMES |-> R.REGISTRY_CLASS_NAMES,
                     DATACLASS_REGISTRY |-> R.DATACLASS_REGISTRY,
                     stored |-> FALSE, err |-> e]
        DR == IF dataclass /= None
              THEN DictSet(R.DATACLASS_REGISTRY, name, dataclass)
              ELSE R.DATACLASS_REGISTRY
    IN IF name \in DOMAIN R.REGISTRY THEN raise(DuplicateChoiceError)
       ELSE IF ClassName(cls) \in R.REGISTRY_CLASS_NAMES
            THEN raise(DuplicateClassNameError)
       ELSE IF dataclass /= None /\ ~Conforms(dataclass)
            THEN raise(DataclassMustExtendError)
       ELSE IF R.base_class /= None /\ ~issubclass(cls, R.base_class)
            THEN [REGISTRY |-> R.REGISTRY,
                  REGISTRY_CLASS_NAMES |-> R.REGISTRY_CLASS_NAMES,
                  DATACLASS_REGISTRY |-> DR,
                  stored |-> dataclass /= None, err |-> MustExtendError]
       ELSE [REGISTRY |-> DictSet(R.REGISTRY, name, cls),
             REGISTRY_CLASS_NAMES |-> R.REGISTRY_CLASS_NAMES,
             DATACLASS_REGISTRY |-> DR,
             stored |-> dataclass /= None, err |-> None]

\* register_x(name, dataclass)(cls) on the registry R: the three collections
\* after the call, what it raises, and whether the ConfigStore node was stored.
\* (The __dataclass attribute it sets on the class is read by no operation of
\* the two files and is not part of the state.)
register_x_cls(R, name, dataclass, cls) ==
    LET raise(e) == [REGISTRY |-> R.REGISTRY,
                     REGISTRY_CLASS_NAMES |-> R.REGISTRY_CLASS_NAMES,
                     DATACLASS_REGISTRY |-> R.DATACLASS_REGISTRY,
                     stored |-> FALSE, err |-> e]
    IN IF name \in DOMAIN R.REGISTRY THEN raise(DuplicateChoiceError)
       ELSE IF ClassName(cls) \in R.REGISTRY_CLASS_NAMES
            THEN raise(DuplicateClassNameError)
       ELSE IF R.base_class /= None /\ ~issubclass(cls, R.base_class)
            THEN raise(MustExtendError)
       ELSE IF dataclass /= None /\ ~Conforms(dataclass)
            THEN raise(DataclassMustExtendError)
       ELSE [REGISTRY |-> DictSet(R.REGISTRY, name, cls),
             REGISTRY_CLASS_NAMES |-> R.REGISTRY_CLASS_NAMES,
             DATACLASS_REGISTRY |->
                 IF dataclass /= None
                 THEN DictSet(R.DATACLASS_REGISTRY, name, dataclass)
                 ELSE R.DATACLASS_REGISTRY,
             stored |-> dataclass /= None, err |-> None]

\* build_x, lines 40-51: the choice a configuration value carries, by shape.
build_x_choice(cfg) ==
    CASE cfg.shape = "DictConfig" -> cfg._name
      [] cfg.shape = "str" -> cfg.value
      [] OTHER -> cfg.attr

\* build_x_cfg with the str branch leaving cfg as it is.
build_x_cfg_str_kept(DATACLASS_REGISTRY, cfg) ==
    LET choice == build_x_choice(cfg)
    IN CASE cfg.shape = "DictConfig" ->
              IF Truthy(choice) /\ choice \in DOMAIN DATACLASS_REGISTRY
              THEN merge_with_parent(NewInstance(DATACLASS_REGISTRY[choice]), cfg)
              ELSE cfg
         [] cfg.shape = "str" -> cfg
         [] OTHER ->
              IF choice \in DOMAIN DATACLASS_REGISTRY
              THEN from_namespace(DATACLASS_REGISTRY[choice], cfg)
              ELSE cfg

\* build_x_cfg with the DictConfig branch replacing cfg by dc(), as the str
\* branch does.
build_x_cfg_node_replaced(DATACLASS_REGISTRY, cfg) ==
    LET choice == build_x_choice(cfg)
    IN CASE cfg.shape = "DictConfig" ->
              IF Truthy(choice) /\ choice \in DOMAIN DATACLASS_REGISTRY
              THEN NewInstance(DATACLASS_REGISTRY[choice])
              ELSE cfg
         [] cfg.shape = "str" ->
              IF choice \in DOMAIN DATACLASS_REGISTRY
              THEN NewInstance(DATACLASS_REGISTRY[choice])
              ELSE cfg
         [] OTHER ->
              IF choice \in DOMAIN DATACLASS_REGISTRY
              THEN from_namespace(DATACLASS_REGISTRY[choice], cfg)
              ELSE cfg

\* build_x, lines 40-53: the configuration handed on, rewritten when a
\* dataclass is registered for the choice.
build_x_cfg(DATACLASS_REGISTRY, cfg) ==
    LET choice == build_x_choice(cfg)
    IN CASE cfg.shape = "DictConfig" ->
              IF Truthy(choice) /\ choice \in DOMAIN DATACLASS_REGISTRY
              THEN merge_with_parent(NewInstance(DATACLASS_REGISTRY[choice]), cfg)
              ELSE cfg
         [] cfg.shape = "str" ->
              IF choice \in DOMAIN DATACLASS_REGISTRY
              THEN NewInstance(DATACLASS_REGISTRY[choice])
              ELSE cfg
         [] OTHER ->
              IF choice \in DOMAIN DATACLASS_REGISTRY
              THEN from_namespace(DATACLASS_REGISTRY[choice], cfg)
              ELSE cfg

\* build_x_call without the hasattr test of line 61: the class is always called
\* directly.
build_x_call_constructor(R, cls, cfg) ==
    [err |-> None, ret |-> "instance",
     call |-> [entry |-> "__init__", cls |-> cls, cfg |-> cfg]]

\* What build_x does with a resolved class: the registry's builder attribute
\* if the class has one, the class itself otherwise, called with cfg.
build_x_call(R, cls, cfg) ==
    [err |-> None, ret |-> "instance",
     call |-> [entry |-> IF R.registry_name \in BuilderAttrs(cls)
                         THEN "build_x" ELSE "__init__",
               cls |-> cls, cfg |-> cfg]]

\* build_x_lookup with required ignored: no choice always returns None.
build_x_lookup_never_required(R, choice, cfg) ==
    IF choice = None
    THEN [err |-> None, ret |-> None, call |-> NoCall]
    ELSE IF choice \notin DOMAIN R.REGISTRY
         THEN [err |-> KeyError, ret |-> None, call |-> NoCall]
         ELSE build_x_call(R, R.REGISTRY[choice], cfg)

\* build_x_lookup with REGISTRY.get(choice) and a fallback on the first
\* registered class in place of REGISTRY[choice].
build_x_lookup_fallback(R, choice, cfg) ==
    IF choice = None
    THEN IF R.required
         THEN [err |-> RequiredError, ret |-> None, call |-> NoCall]
         ELSE [err |-> None, ret |-> None, call |-> NoCall]
    ELSE IF choice \notin DOMAIN R.REGISTRY
         THEN IF R.REGISTRY = EmptyDict
              THEN [err |-> None, ret |-> None, call |-> NoCall]
              ELSE build_x_call(R, R.REGISTRY[CHOOSE c \in DOMAIN R.REGISTRY : TRUE],
                                cfg)
         ELSE build_x_call(R, R.REGISTRY[choice], cfg)

\* build_x, lines 55-66: no choice, unknown choice, or the call of the entry
\* point.  The result is what it raises, what it returns (None, or "instance"
\* for what the entry point returned) and the one call it makes: the class,
\* the entry point and the configuration passed.
build_x_lookup(R, choice, cfg) ==
    IF choice = None
    THEN IF R.required
         THEN [err |-> RequiredError, ret |-> None, call |-> NoCall]
         ELSE [err |-> None, ret |-> None, call |-> NoCall]
    ELSE IF choice \notin DOMAIN R.REGISTRY
         THEN [err |-> KeyError, ret |-> None, call |-> NoCall]
         ELSE build_x_call(R, R.REGISTRY[choice], cfg)

\* build_x(cfg) of the registry R.
build_x(R, cfg) ==
    build_x_lookup(R, build_x_choice(cfg), build_x_cfg(R.DATACLASS_REGISTRY, cfg))

\* ------------------------------------------------------ tasks/__init__.py
\* register_task_cls without the test of line 80: a class identifier may be
\* registered twice.
register_task_cls_anyname(T, name, dataclass, cls) ==
    IF name \in DOMAIN T.TASK_REGISTRY \/ ~issubclass(cls, "FairseqTask")
    THEN [TASK_REGISTRY |-> T.TASK_REGISTRY,
          TASK_CLASS_NAMES |-> T.TASK_CLASS_NAMES,
          TASK_DATACLASS_REGISTRY |-> T.TASK_DATACLASS_REGISTRY,
          stored |-> FALSE,
          err |-> IF name \in DOMAIN T.TASK_REGISTRY
                  THEN DuplicateChoiceError ELSE MustExtendError]
    ELSE [TASK_REGISTRY |-> DictSet(T.TASK_REGISTRY, name, cls),
          TASK_CLASS_NAMES |-> T.TASK_CLASS_NAMES \cup {ClassName(cls)},
          TASK_DATACLASS_REGISTRY |->
              IF dataclass /= None /\ Conforms(dataclass)
              THEN DictSet(T.TASK_DATACLASS_REGISTRY, name, dataclass)
              ELSE T.TASK_DATACLASS_REGISTRY,
          stored |-> dataclass /= None /\ Conforms(dataclass),
          err |-> IF dataclass /= None /\ ~Conforms(dataclass)
                  THEN DataclassMustExtendError ELSE None]

\* register_task_cls without the test of line 74: a registered task name is
\* rebound, and its dataclass dropped when the new call gives none.
register_task_cls_rebind(T, name, dataclass, cls) ==
    IF ~issubclass(cls, "FairseqTask")
    THEN [TASK_REGISTRY |-> T.TASK_REGISTRY,
          TASK_CLASS_NAMES |-> T.TASK_CLASS_NAMES,
          TASK_DATACLASS_REGISTRY |-> T.TASK_DATACLASS_REGISTRY,
          stored |-> FALSE, err |-> MustExtendError]
    ELSE [TASK_REGISTRY |-> DictSet(T.TASK_REGISTRY, name, cls),
          TASK_CLASS_NAMES |-> T.TASK_CLASS_NAMES \cup {ClassName(cls)},
          TASK_DATACLASS_REGISTRY |->
              IF dataclass /= None /\ Conforms(dataclass)
              THEN DictSet(T.TASK_DATACLASS_REGISTRY, name, dataclass)
              ELSE T.TASK_DATACLASS_REGISTRY,
          stored |-> dataclass /= None /\ Conforms(dataclass),
          err |-> IF dataclass /= None /\ ~Conforms(dataclass)
                  THEN DataclassMustExtendError ELSE None]

\* register_task(name, dataclass)(cls): the task registry is updated before
\* the dataclass is checked.
register_task_cls(T, name, dataclass, cls) ==
    LET raise(e) == [TASK_REGISTRY |-> T.TASK_REGISTRY,
                     TASK_CLASS_NAMES |-> T.TASK_CLASS_NAMES,
                     TASK_DATACLASS_REGISTRY |-> T.TASK_DATACLASS_REGISTRY,
                     stored |-> FALSE, err |-> e]
    IN IF name \in DOMAIN T.TASK_REGISTRY THEN raise(DuplicateChoiceError)
       ELSE IF ~issubclass(cls, "FairseqTask") THEN raise(MustExtendError)
       ELSE IF ClassName(cls) \in T.TASK_CLASS_NAMES
            THEN raise(DuplicateClassNameError)
       ELSE IF dataclass /= None /\ ~Conforms(dataclass)
            THEN [TASK_REGISTRY |-> DictSet(T.TASK_REGISTRY, name, cls),
                  TASK_CLASS_NAMES |-> T.TASK_CLASS_NAMES \cup {ClassName(cls)},
                  TASK_DATACLASS_REGISTRY |-> T.TASK_DATACLASS_REGISTRY,
                  stored |-> FALSE,
                  err |-> DataclassMustExtendError]
       ELSE [TASK_REGISTRY |-> DictSet(T.TASK_REGISTRY, name, cls),
             TASK_CLASS_NAMES |-> T.TASK_CLASS_NAMES \cup {ClassName(cls)},
             TASK_DATACLASS_REGISTRY |->
                 IF dataclass /= None
                 THEN DictSet(T.TASK_DATACLASS_REGISTRY, name, dataclass)
                 ELSE T.TASK_DATACLASS_REGISTRY,
             stored |-> dataclass /= None, err |-> None]

\* setup_task with the structured path passing cfg on as it is (line 39 left
\* out).
setup_task_unmerged(T, cfg) ==
    IF cfg.task /= None
    THEN IF cfg.task \notin DOMAIN T.TASK_REGISTRY
         THEN [err |-> KeyError, ret |-> None, call |-> NoCall]
         ELSE [err |-> None, ret |-> "instance",
               call |-> [entry |-> "setup_task",
                         cls |-> T.TASK_REGISTRY[cfg.task],
                         cfg |-> IF cfg.task \in DOMAIN T.TASK_DATACLASS_REGISTRY
                                 THEN from_namespace(
                                          T.TASK_DATACLASS_REGISTRY[cfg.task], cfg)
                                 ELSE cfg]]
    ELSE IF Truthy(cfg._name) /\ cfg._name \in DOMAIN T.TASK_DATACLASS_REGISTRY
         THEN [err |-> None, ret |-> "instance",
               call |-> [entry |-> "setup_task",
                         cls |-> T.TASK_REGISTRY[cfg._name], cfg |-> cfg]]
         ELSE [err |-> CouldNotInferTaskError, ret |-> None, call |-> NoCall]

\* setup_task with the two paths in the other order: the structured choice
\* field is read first, the legacy attribute only when it resolves nothing.
setup_task_structured_first(T, cfg) ==
    IF Truthy(cfg._name) /\ cfg._name \in DOMAIN T.TASK_DATACLASS_REGISTRY
    THEN [err |-> None, ret |-> "instance",
          call |-> [entry |-> "setup_task",
                    cls |-> T.TASK_REGISTRY[cfg._name],
                    cfg |-> merge_with_parent(
                        NewInstance(T.TASK_DATACLASS_REGISTRY[cfg._name]), cfg)]]
    ELSE IF cfg.task /= None
         THEN IF cfg.task \notin DOMAIN T.TASK_REGISTRY
              THEN [err |-> KeyError, ret |-> None, call |-> NoCall]
              ELSE [err |-> None, ret |-> "instance",
                    call |-> [entry |-> "setup_task",
                              cls |-> T.TASK_REGISTRY[cfg.task],
                              cfg |-> IF cfg.task \in DOMAIN T.TASK_DATACLASS_REGISTRY
                                      THEN from_namespace(
                                          T.TASK_DATACLASS_REGISTRY[cfg.task], cfg)
                                      ELSE cfg]]
         ELSE [err |-> CouldNotInferTaskError, ret |-> None, call |-> NoCall]

\* setup_task(cfg): the legacy path when cfg.task is a string, the structured
\* path otherwise.
setup_task(T, cfg) ==
    LET task_name == cfg.task
    IN IF task_name /= None
       THEN IF task_name \notin DOMAIN T.TASK_REGISTRY
            THEN [err |-> KeyError, ret |-> None, call |-> NoCall]
            ELSE [err |-> None, ret |-> "instance",
                  call |-> [entry |-> "setup_task",
                            cls |-> T.TASK_REGISTRY[task_name],
                            cfg |-> IF task_name \in DOMAIN T.TASK_DATACLASS_REGISTRY
                                    THEN from_namespace(
                                             T.TASK_DATACLASS_REGISTRY[task_name], cfg)
                                    ELSE cfg]]
       ELSE LET task_name2 == cfg._name
            IN IF Truthy(task_name2)
                  /\ task_name2 \in DOMAIN T.TASK_DATACLASS_REGISTRY
               THEN IF task_name2 \notin DOMAIN T.TASK_REGISTRY
                    THEN [err |-> KeyError, ret |-> None, call |-> NoCall]
                    ELSE [err |-> None, ret |-> "instance",
                          call |-> [entry |-> "setup_task",
                                    cls |-> T.TASK_REGISTRY[task_name2],
                                    cfg |-> merge_with_parent(
                                        NewInstance(
                                            T.TASK_DATACLASS_REGISTRY[task_name2]),
                                        cfg)]]
               ELSE [err |-> CouldNotInferTaskError, ret |-> None,
                     call |-> NoCall]

\* The task registry, as the argument of the two operators above.
TaskRegistry ==
    [TASK_REGISTRY |-> TASK_REGISTRY,
     TASK_CLASS_NAMES |-> TASK_CLASS_NAMES,
     TASK_DATACLASS_REGISTRY |-> TASK_DATACLASS_REGISTRY]

\* ------------------------------------------------------------------ actions
Init ==
    /\ REGISTRIES = EmptyDict
    /\ regs = <<>>
    /\ TASK_DATACLASS_REGISTRY = EmptyDict
    /\ TASK_REGISTRY = EmptyDict
    /\ TASK_CLASS_NAMES = {}
    /\ cs = EmptyDict
    /\ last = [op |-> "init"]

\* The number of entries of all registries.
Entries ==
    Cardinality(DOMAIN TASK_REGISTRY)
    + Cardinality({<<id, name>> \in (DOMAIN regs) \X Choices :
                      name \in DOMAIN regs[id].REGISTRY})

SetupRegistry ==
    \E registry_name \in RegistryNames, args \in RegistryArgs :
        LET out == setup_registry(REGISTRIES, regs, registry_name,
                                  args.base_class, args.default, args.required)
        IN /\ REGISTRIES' = out.REGISTRIES
           /\ regs' = out.regs
           /\ last' = [op |-> "setup_registry", registry_name |-> registry_name,
                       args |-> args, ret |-> out.ret, err |-> out.err]
           /\ UNCHANGED <<taskVars, cs>>

\* register_x writing to dictionaries shared by all registries, as if REGISTRY
\* and DATACLASS_REGISTRY were module-level and not made by each
\* setup_registry call (lines 26-28).
RegisterX_shared ==
    \E id \in DOMAIN regs, name \in Choices,
       dataclass \in Dataclasses \cup {None}, cls \in Classes :
        LET R == regs[id]
            out == register_x_cls(R, name, dataclass, cls)
        IN /\ out.err = None => Entries < MaxEntries
           /\ regs' = [i \in DOMAIN regs |->
                  [regs[i] EXCEPT !.REGISTRY = out.REGISTRY,
                                  !.REGISTRY_CLASS_NAMES = out.REGISTRY_CLASS_NAMES,
                                  !.DATACLASS_REGISTRY = out.DATACLASS_REGISTRY]]
           /\ cs' = IF out.stored
                    THEN DictSet(cs, <<R.registry_name, name>>,
                                 StoreNode(dataclass, name))
                    ELSE cs
           /\ last' = [op |-> "register", reg |-> id, name |-> name,
                       dataclass |-> dataclass, cls |-> cls, err |-> out.err]
           /\ UNCHANGED <<REGISTRIES, taskVars>>

RegisterX ==
    \E id \in DOMAIN regs, name \in Choices,
       dataclass \in Dataclasses \cup {None}, cls \in Classes :
        LET R == regs[id]
            out == register_x_cls(R, name, dataclass, cls)
        IN /\ out.err = None => Entries < MaxEntries
           /\ regs' = [regs EXCEPT ![id] =
                  [R EXCEPT !.REGISTRY = out.REGISTRY,
                            !.REGISTRY_CLASS_NAMES = out.REGISTRY_CLASS_NAMES,
                            !.DATACLASS_REGISTRY = out.DATACLASS_REGISTRY]]
           /\ cs' = IF out.stored
                    THEN DictSet(cs, <<R.registry_name, name>>,
                                 StoreNode(dataclass, name))
                    ELSE cs
           /\ last' = [op |-> "register", reg |-> id, name |-> name,
                       dataclass |-> dataclass, cls |-> cls, err |-> out.err]
           /\ UNCHANGED <<REGISTRIES, taskVars>>

RegisterTask ==
    \E name \in Choices, dataclass \in Dataclasses \cup {None}, cls \in Classes :
        LET out == register_task_cls(TaskRegistry, name, dataclass, cls)
        IN /\ DOMAIN out.TASK_REGISTRY /= DOMAIN TASK_REGISTRY
                  => Entries < MaxEntries
           /\ TASK_REGISTRY' = out.TASK_REGISTRY
           /\ TASK_CLASS_NAMES' = out.TASK_CLASS_NAMES
           /\ TASK_DATACLASS_REGISTRY' = out.TASK_DATACLASS_REGISTRY
           /\ cs' = IF out.stored
                    THEN DictSet(cs, <<TaskGroup, name>>, StoreNode(dataclass, name))
                    ELSE cs
           /\ last' = [op |-> "register_task", name |-> name,
                       dataclass |-> dataclass, cls |-> cls, err |-> out.err]
           /\ UNCHANGED <<genericVars>>

\* build_x falling back on the default choice of the catalog entry when the
\* configuration carries no choice.
BuildX_default ==
    \E id \in DOMAIN regs, cfg \in BuildCfgs :
        LET default == REGISTRIES[regs[id].registry_name].default
            used == IF build_x_choice(cfg) = None /\ default /= None
                    THEN [shape |-> "str", value |-> default]
                    ELSE cfg
            out == build_x(regs[id], used)
        IN /\ last' = [op |-> "build", reg |-> id, cfg |-> cfg, err |-> out.err,
                       ret |-> out.ret, call |-> out.call]
           /\ UNCHANGED <<genericVars, taskVars, cs>>

\* build_x publishing the configuration it resolved in the ConfigStore, as
\* register_x does with the node of a new dataclass.
BuildX_store ==
    \E id \in DOMAIN regs, cfg \in BuildCfgs :
        LET out == build_x(regs[id], cfg)
        IN /\ last' = [op |-> "build", reg |-> id, cfg |-> cfg, err |-> out.err,
                       ret |-> out.ret, call |-> out.call]
           /\ cs' = IF out.call /= NoCall /\ out.call.cfg.shape = "DictConfig"
                       /\ "dc" \in DOMAIN out.call.cfg
                    THEN DictSet(cs, <<regs[id].registry_name, cfg._name>>,
                                 [dc |-> out.call.cfg.dc, _name |-> cfg._name,
                                  fields |-> out.call.cfg.fields])
                    ELSE cs
           /\ UNCHANGED <<genericVars, taskVars>>

BuildX ==
    \E id \in DOMAIN regs, cfg \in BuildCfgs :
        LET out == build_x(regs[id], cfg)
        IN /\ last' = [op |-> "build", reg |-> id, cfg |-> cfg, err |-> out.err,
                       ret |-> out.ret, call |-> out.call]
           /\ UNCHANGED <<genericVars, taskVars, cs>>

SetupTask ==
    \E cfg \in TaskCfgs :
        LET out == setup_task(TaskRegistry, cfg)
        IN /\ last' = [op |-> "setup_task", cfg |-> cfg, err |-> out.err,
                       ret |-> out.ret, call |-> out.call]
           /\ UNCHANGED <<genericVars, taskVars, cs>>

Next == SetupRegistry \/ RegisterX \/ RegisterTask \/ BuildX \/ SetupTask

Spec == Init /\ [][Next]_vars

\* Two registries under different names, beside the task registry: the calls
\* that create and fill registries.
SetupRegistryTwo ==
    \E registry_name \in TwoRegistryNames, args \in TwoRegistryArgs :
        LET out == setup_registry(REGISTRIES, regs, registry_name,
                                  args.base_class, args.default, args.required)
        IN /\ REGISTRIES' = out.REGISTRIES
           /\ regs' = out.regs
           /\ last' = [op |-> "setup_registry", registry_name |-> registry_name,
                       args |-> args, ret |-> out.ret, err |-> out.err]
           /\ UNCHANGED <<taskVars, cs>>

RegisterTaskTwo ==
    \E c \in TwoTaskCalls :
        LET out == register_task_cls(TaskRegistry, c.name, c.dataclass, c.cls)
        IN /\ DOMAIN out.TASK_REGISTRY /= DOMAIN TASK_REGISTRY
                  => Entries < MaxEntries
           /\ TASK_REGISTRY' = out.TASK_REGISTRY
           /\ TASK_CLASS_NAMES' = out.TASK_CLASS_NAMES
           /\ TASK_DATACLASS_REGISTRY' = out.TASK_DATACLASS_REGISTRY
           /\ cs' = IF out.stored
                    THEN DictSet(cs, <<TaskGroup, c.name>>,
                                 StoreNode(c.dataclass, c.name))
                    ELSE cs
           /\ last' = [op |-> "register_task", name |-> c.name,
                       dataclass |-> c.dataclass, cls |-> c.cls, err |-> out.err]
           /\ UNCHANGED <<genericVars>>

NextTwo == SetupRegistryTwo \/ RegisterX \/ RegisterTaskTwo

SpecTwo == Init /\ [][NextTwo]_vars

\* =================================================================== claims
\* The collections of every registry, the catalog and the ConfigStore.
registryVars == <<REGISTRIES, regs, TASK_DATACLASS_REGISTRY, TASK_REGISTRY,
                  TASK_CLASS_NAMES, cs>>

\* C1: in a registry made by setup_registry and in the task registry,
\* registering under a choice-name that is already a key of implementations
\* fails with the duplicate-choice error; implementations[choice] is still the
\* class registered first, and implementations, schemas and class_names are
\* as they were before the call.
C1_DuplicateChoiceRejected ==
    [][ /\ (last'.op = "register"
            /\ last'.name \in DOMAIN regs[last'.reg].REGISTRY)
           => /\ last'.err = DuplicateChoiceError
              /\ regs'[last'.reg].REGISTRY[last'.name]
                     = regs[last'.reg].REGISTRY[last'.name]
              /\ UNCHANGED registryVars
        /\ (last'.op = "register_task" /\ last'.name \in DOMAIN TASK_REGISTRY)
           => /\ last'.err = DuplicateChoiceError
              /\ TASK_REGISTRY'[last'.name] = TASK_REGISTRY[last'.name]
              /\ UNCHANGED registryVars
      ]_vars

\* A second registration of a registered choice, with another class, failed.
C1_Witness ==
    /\ last.op = "register"
    /\ last.err = DuplicateChoiceError
    /\ regs[last.reg].REGISTRY[last.name] /= last.cls

\* C2: in a registry made by setup_registry, no two choices of implementations
\* map to classes that share a class identifier.
C2_NoSharedClassName ==
    \A id \in DOMAIN regs :
        \A c1, c2 \in DOMAIN regs[id].REGISTRY :
            c1 /= c2 => ClassName(regs[id].REGISTRY[c1])
                            /= ClassName(regs[id].REGISTRY[c2])

\* C3: in the task registry no two choice-names map to classes with the same
\* class identifier, and the identifier of every class stored in TASK_REGISTRY
\* is a member of TASK_CLASS_NAMES.
C3_TaskClassNamesUnique ==
    /\ \A c1, c2 \in DOMAIN TASK_REGISTRY :
           c1 /= c2 => ClassName(TASK_REGISTRY[c1]) /= ClassName(TASK_REGISTRY[c2])
    /\ \A c \in DOMAIN TASK_REGISTRY : ClassName(TASK_REGISTRY[c]) \in TASK_CLASS_NAMES

\* A class whose identifier is taken was refused under a free choice-name.
C3_Witness ==
    /\ last.op = "register_task"
    /\ last.err = DuplicateClassNameError
    /\ last.name \notin DOMAIN TASK_REGISTRY
    /\ \E c \in DOMAIN TASK_REGISTRY :
           ClassName(TASK_REGISTRY[c]) = ClassName(last.cls)

\* C4 as stated: registering a class that does not satisfy the base interface
\* always fails with the interface-conformance error and leaves
\* implementations, schemas and class_names unchanged; with no base interface
\* declared the check never rejects a class.
C4_NonConformingRejected ==
    [][ /\ (last'.op = "register"
            /\ regs[last'.reg].base_class /= None
            /\ ~issubclass(last'.cls, regs[last'.reg].base_class))
           => (last'.err = MustExtendError /\ UNCHANGED registryVars)
        /\ (last'.op = "register_task" /\ ~issubclass(last'.cls, "FairseqTask"))
           => (last'.err = MustExtendError /\ UNCHANGED registryVars)
        /\ (last'.op = "register" /\ regs[last'.reg].base_class = None)
           => last'.err /= MustExtendError
      ]_vars

\* C4 amended: such a registration always fails and changes nothing; the error
\* is the interface-conformance error when the choice-name is free and the
\* duplicate-choice error when the choice-name is already registered.
C4_NonConformingRejectedAmended ==
    [][ /\ (last'.op = "register"
            /\ regs[last'.reg].base_class /= None
            /\ ~issubclass(last'.cls, regs[last'.reg].base_class))
           => /\ last'.err =
                     IF last'.name \in DOMAIN regs[last'.reg].REGISTRY
                     THEN DuplicateChoiceError ELSE MustExtendError
              /\ UNCHANGED registryVars
        /\ (last'.op = "register_task" /\ ~issubclass(last'.cls, "FairseqTask"))
           => /\ last'.err =
                     IF last'.name \in DOMAIN TASK_REGISTRY
                     THEN DuplicateChoiceError ELSE MustExtendError
              /\ UNCHANGED registryVars
        /\ (last'.op = "register" /\ regs[last'.reg].base_class = None)
           => last'.err /= MustExtendError
      ]_vars

\* A class that does not extend the declared base was refused under a free
\* choice-name of a registry that already holds an entry.
C4_Witness ==
    /\ last.op = "register"
    /\ last.err = MustExtendError
    /\ regs[last.reg].REGISTRY /= EmptyDict
    /\ ~issubclass(last.cls, regs[last.reg].base_class)

\* The choice a configuration value handed to build carries (None: absent).
CarriedChoice(cfg) ==
    IF cfg.shape = "DictConfig" THEN cfg._name
    ELSE IF cfg.shape = "str" THEN cfg.value
    ELSE cfg.attr

\* C5: build with the bare string c, c registered with a schema, passes to the
\* entry point of the implementation exactly the schema's default instance,
\* whatever calls were made before.
C5_BareStringGetsDefaults ==
    (/\ last.op = "build"
     /\ last.cfg.shape = "str"
     /\ last.cfg.value \in DOMAIN regs[last.reg].DATACLASS_REGISTRY)
    => /\ last.err = None
       /\ last.call.entry \in {"build_x", "__init__"}
       /\ last.call.cls = regs[last.reg].REGISTRY[last.cfg.value]
       /\ last.call.cfg.shape = "dataclass"
       /\ last.call.cfg.dc = regs[last.reg].DATACLASS_REGISTRY[last.cfg.value]
       /\ last.call.cfg.fields
              = Defaults(regs[last.reg].DATACLASS_REGISTRY[last.cfg.value])

\* A build by bare string of a choice registered with a schema.
C5_Witness ==
    /\ last.op = "build"
    /\ last.cfg.shape = "str"
    /\ last.cfg.value \in DOMAIN regs[last.reg].DATACLASS_REGISTRY
    /\ last.ret = "instance"

\* The configuration passed has the caller's value in every field the caller
\* supplied and the default of the dataclass dc in every other field.
OverridesWin(passed, given, dc) ==
    /\ DOMAIN passed.fields = Fields
    /\ \A f \in Fields :
           passed.fields[f] = IF f \in DOMAIN given.fields THEN given.fields[f]
                              ELSE Defaults(dc)[f]

\* C6 as stated: build with a structured node whose choice field is c, c
\* registered with a schema, passes a configuration in which caller-supplied
\* fields have the caller's value and the other fields the schema default.
C6_NodeOverridesWin ==
    (/\ last.op = "build"
     /\ last.cfg.shape = "DictConfig"
     /\ last.cfg._name /= None
     /\ last.cfg._name \in DOMAIN regs[last.reg].DATACLASS_REGISTRY)
    => /\ last.err = None
       /\ last.call.entry \in {"build_x", "__init__"}
       /\ OverridesWin(last.call.cfg, last.cfg,
                       regs[last.reg].DATACLASS_REGISTRY[last.cfg._name])

\* C6 amended: the same, for a choice c that is not the empty string.
C6_NodeOverridesWinNonEmpty ==
    (/\ last.op = "build"
     /\ last.cfg.shape = "DictConfig"
     /\ last.cfg._name /= None
     /\ last.cfg._name /= ""
     /\ last.cfg._name \in DOMAIN regs[last.reg].DATACLASS_REGISTRY)
    => /\ last.err = None
       /\ last.call.entry \in {"build_x", "__init__"}
       /\ last.call.cls = regs[last.reg].REGISTRY[last.cfg._name]
       /\ OverridesWin(last.call.cfg, last.cfg,
                       regs[last.reg].DATACLASS_REGISTRY[last.cfg._name])

\* A build by structured node that overrides x and leaves y to the schema.
C6_Witness ==
    /\ last.op = "build"
    /\ last.cfg.shape = "DictConfig"
    /\ last.cfg._name = "a"
    /\ last.cfg._name \in DOMAIN regs[last.reg].DATACLASS_REGISTRY
    /\ DOMAIN last.cfg.fields = {"x"}
    /\ last.ret = "instance"
    /\ last.call.cfg.fields["x"] = 5
    /\ last.call.cfg.fields["y"] = 2

\* C7: build on a value whose choice is absent (a node with a null choice
\* field, a legacy bag without the registry's attribute) returns nothing,
\* raises nothing and constructs nothing when required is false, and raises
\* the required-choice-missing error when required is true.
C7_AbsentChoice ==
    (/\ last.op = "build"
     /\ last.cfg.shape \in {"DictConfig", "Namespace"}
     /\ CarriedChoice(last.cfg) = None)
    => /\ last.call = NoCall
       /\ last.ret = None
       /\ last.err = IF regs[last.reg].required THEN RequiredError ELSE None

\* A legacy bag without the attribute, on a registry that is required and
\* holds an entry.
C7_Witness ==
    /\ last.op = "build"
    /\ last.cfg.shape = "Namespace"
    /\ last.cfg.attr = None
    /\ regs[last.reg].required
    /\ regs[last.reg].REGISTRY /= EmptyDict
    /\ last.err = RequiredError

\* C8: for every shape and either value of required, build with a choice that
\* is present but is no key of implementations fails with the unknown-choice
\* error and calls no builder or constructor.
C8_UnknownChoice ==
    (/\ last.op = "build"
     /\ CarriedChoice(last.cfg) /= None
     /\ CarriedChoice(last.cfg) \notin DOMAIN regs[last.reg].REGISTRY)
    => /\ last.err = KeyError
       /\ last.call = NoCall

\* An unknown choice in a legacy bag, on a registry that holds an entry.
C8_Witness ==
    /\ last.op = "build"
    /\ last.cfg.shape = "Namespace"
    /\ last.cfg.attr = "zz"
    /\ regs[last.reg].REGISTRY /= EmptyDict
    /\ last.err = KeyError

\* C9: setup_registry with a name that normalizes to a catalogued registry
\* name returns nothing and leaves the catalog entry and the first registry's
\* implementations and schemas unchanged, whatever base interface, default
\* and required flag it is given.
C9_SetupRegistryIdempotent ==
    [][ (/\ last'.op = "setup_registry"
         /\ StartsWithDashes(last'.registry_name)
         /\ Normalize(last'.registry_name) \in DOMAIN REGISTRIES)
        => /\ last'.ret = None
           /\ last'.err = None
           /\ REGISTRIES' = REGISTRIES
           /\ regs' = regs
           /\ UNCHANGED registryVars
      ]_vars

\* A second call under the other spelling of the name, with another base
\* interface, default and required flag, on a registry that holds an entry.
C9_Witness ==
    /\ last.op = "setup_registry"
    /\ last.ret = None
    /\ last.err = None
    /\ last.registry_name = <<"-", "-", "o", "-", "p">>
    /\ <<"o", "_", "p">> \in DOMAIN REGISTRIES
    /\ LET e == REGISTRIES[<<"o", "_", "p">>]
       IN /\ e.default /= last.args.default
          /\ regs[e.registry].base_class /= last.args.base_class
          /\ regs[e.registry].required /= last.args.required
          /\ regs[e.registry].REGISTRY /= EmptyDict

\* C10: task setup that resolves no implementation, by either path, fails
\* with the assertion that reports the requested value and the known choices.
C10_UnresolvedIsAssertion ==
    (last.op = "setup_task" /\ last.call = NoCall)
    => last.err = CouldNotInferTaskError

\* C11 as stated: task setup on a cfg without a string task attribute, whose
\* structured choice field is a key of TASK_REGISTRY, resolves that
\* implementation and calls its setup entry point, with the schema defaults
\* merged in when a schema is registered, and resolves it whether or not a
\* schema is registered.
C11_StructuredPathResolves ==
    (/\ last.op = "setup_task"
     /\ last.cfg.task = None
     /\ last.cfg._name \in DOMAIN TASK_REGISTRY)
    => /\ last.err = None
       /\ last.call.entry = "setup_task"
       /\ last.call.cls = TASK_REGISTRY[last.cfg._name]
       /\ last.cfg._name \in DOMAIN TASK_DATACLASS_REGISTRY
              => OverridesWin(last.call.cfg, last.cfg,
                              TASK_DATACLASS_REGISTRY[last.cfg._name])

\* C11 amended: the structured path resolves a choice that is not empty and
\* is registered with a schema: it calls the setup entry point of
\* TASK_REGISTRY[choice] with the schema defaults merged into cfg.  A choice
\* that is empty or has no registered schema is not resolved: the call fails
\* with the assertion and calls nothing.
C11_StructuredPathNeedsSchema ==
    (last.op = "setup_task" /\ last.cfg.task = None)
    => IF /\ last.cfg._name /= None
          /\ last.cfg._name /= ""
          /\ last.cfg._name \in DOMAIN TASK_DATACLASS_REGISTRY
       THEN /\ last.err = None
            /\ last.call.entry = "setup_task"
            /\ last.call.cls = TASK_REGISTRY[last.cfg._name]
            /\ OverridesWin(last.call.cfg, last.cfg,
                            TASK_DATACLASS_REGISTRY[last.cfg._name])
       ELSE /\ last.err = CouldNotInferTaskError
            /\ last.call = NoCall

\* A structured cfg that overrides x, for a task registered with a schema.
C11_Witness ==
    /\ last.op = "setup_task"
    /\ last.cfg.task = None
    /\ last.cfg._name = "a"
    /\ "a" \in DOMAIN TASK_DATACLASS_REGISTRY
    /\ DOMAIN last.cfg.fields = {"x"}
    /\ last.call.entry = "setup_task"
    /\ last.call.cfg.fields["x"] = 5
    /\ last.call.cfg.fields["y"] = 2

\* C12: when cfg has a task attribute that is a string, the implementation is
\* resolved from that attribute alone, cfg is converted to the schema
\* registered for it if there is one, and the structured choice field plays
\* no part, even when it names another registered task.
C12_LegacyPathFirst ==
    (last.op = "setup_task" /\ last.cfg.task /= None)
    => IF last.cfg.task \in DOMAIN TASK_REGISTRY
       THEN /\ last.err = None
            /\ last.call.entry = "setup_task"
            /\ last.call.cls = TASK_REGISTRY[last.cfg.task]
            /\ IF last.cfg.task \in DOMAIN TASK_DATACLASS_REGISTRY
               THEN /\ last.call.cfg.shape = "dataclass"
                    /\ last.call.cfg.dc = TASK_DATACLASS_REGISTRY[last.cfg.task]
               ELSE last.call.cfg = last.cfg
       ELSE last.call = NoCall /\ last.err /= None

\* The legacy attribute names one task, the structured field another task
\* that is registered with a schema; the first one is set up.
C12_Witness ==
    /\ last.op = "setup_task"
    /\ last.cfg.task = ""
    /\ last.cfg._name = "a"
    /\ "" \in DOMAIN TASK_REGISTRY
    /\ "a" \in DOMAIN TASK_DATACLASS_REGISTRY
    /\ TASK_REGISTRY[""] /= TASK_REGISTRY["a"]
    /\ last.call.entry = "setup_task"
    /\ last.call.cls = TASK_REGISTRY[""]

\* C13: every build that succeeds makes one call of one entry point of the
\* implementation registered for the choice, with the resolved configuration:
\* the builder named after the registry (build_<registry name>) if the class
\* has it, the constructor otherwise, and never the constructor when the
\* builder exists.  A build that makes a call is a build that succeeded.
C13_OneEntryPoint ==
    last.op = "build"
    => /\ last.ret = "instance" <=> last.call /= NoCall
       /\ last.ret = "instance"
          => LET R == regs[last.reg]
                 cls == R.REGISTRY[CarriedChoice(last.cfg)]
             IN /\ last.err = None
                /\ last.call.cls = cls
                /\ last.call.cfg = build_x_cfg(R.DATACLASS_REGISTRY, last.cfg)
                /\ last.call.entry = IF R.registry_name \in BuilderAttrs(cls)
                                     THEN "build_x" ELSE "__init__"

\* A build of a class that has the registry's builder.
C13_Witness ==
    /\ last.op = "build"
    /\ last.ret = "instance"
    /\ regs[last.reg].registry_name \in BuilderAttrs(last.call.cls)
    /\ last.call.entry = "build_x"

\* C14: build takes an empty choice as an absent one: for the bare empty
\* string, a structured node with an empty choice field and a legacy bag with
\* an empty registry attribute, it returns nothing when the registry is not
\* required and raises the required-choice error when it is.
C14_EmptyChoiceIsAbsent ==
    (last.op = "build" /\ CarriedChoice(last.cfg) = "")
    => /\ last.call = NoCall
       /\ last.ret = None
       /\ last.err = IF regs[last.reg].required THEN RequiredError ELSE None

\* The default choice recorded in the catalog for the registry at place id.
DefaultOf(id) == REGISTRIES[regs[id].registry_name].default

\* C15 as stated: in a registry set up with the default choice d, build with
\* a configuration that carries no choice uses d: it calls the implementation
\* registered under d.
C15_DefaultChoiceUsed ==
    (/\ last.op = "build"
     /\ CarriedChoice(last.cfg) = None
     /\ DefaultOf(last.reg) /= None
     /\ DefaultOf(last.reg) \in DOMAIN regs[last.reg].REGISTRY)
    => /\ last.err = None
       /\ last.call /= NoCall
       /\ last.call.cls = regs[last.reg].REGISTRY[DefaultOf(last.reg)]

\* C15 amended: the default choice given to setup_registry is recorded in the
\* catalog entry of the new registry and nowhere else; build does not read
\* it.  In a registry set up with a default, build with a configuration that
\* carries no choice calls nothing: it returns nothing, or raises the
\* required-choice error when the registry is required.
C15_DefaultOnlyCatalogued ==
    /\ (last.op = "setup_registry" /\ last.ret = Closures)
       => REGISTRIES[Normalize(last.registry_name)].default = last.args.default
    /\ (/\ last.op = "build"
        /\ CarriedChoice(last.cfg) = None
        /\ DefaultOf(last.reg) /= None)
       => /\ last.call = NoCall
          /\ last.ret = None
          /\ last.err = IF regs[last.reg].required THEN RequiredError ELSE None

\* A build without a choice on a registry whose default choice is registered.
C15_Witness ==
    /\ last.op = "build"
    /\ CarriedChoice(last.cfg) = None
    /\ DefaultOf(last.reg) = "a"
    /\ "a" \in DOMAIN regs[last.reg].REGISTRY
    /\ last.ret = None
    /\ last.err = None

\* C16: every build call and every setup_task call, whatever comes of it,
\* leaves the implementations, schemas and class names of every registry, the
\* catalog and the published schema nodes as they were; the configuration a
\* build merges is a new value, so a build by bare string that follows a build
\* with caller overrides of the same choice passes the schema's own defaults.
C16_BuildAndSetupReadOnly ==
    [][ /\ last'.op \in {"build", "setup_task"} => UNCHANGED registryVars
        /\ (/\ last.op = "build"
            /\ last.cfg.shape = "DictConfig"
            /\ last.ret = "instance"
            /\ last.cfg._name \in DOMAIN regs[last.reg].DATACLASS_REGISTRY
            /\ DOMAIN last.cfg.fields /= {}
            /\ last'.op = "build"
            /\ last'.reg = last.reg
            /\ last'.cfg = [shape |-> "str", value |-> last.cfg._name])
           => /\ last'.ret = "instance"
              /\ last'.call.cfg.fields
                     = Defaults(regs[last.reg].DATACLASS_REGISTRY[last.cfg._name])
      ]_vars

\* A build that merged a caller override, with the node published for the
\* same choice still holding the schema defaults.
C16_Witness ==
    /\ last.op = "build"
    /\ last.cfg.shape = "DictConfig"
    /\ last.cfg._name = "a"
    /\ "a" \in DOMAIN regs[last.reg].DATACLASS_REGISTRY
    /\ last.call /= NoCall
    /\ last.call.cfg.fields["x"] = 5
    /\ cs[<<regs[last.reg].registry_name, "a">>].fields
           = Defaults(regs[last.reg].DATACLASS_REGISTRY["a"])

\* C17: in a generic registry and in the task registry, a register call that
\* fails because the schema does not conform leaves implementations, class
\* names and schemas as they were, so the same choice-name and class can be
\* registered afterwards with a conforming schema.
C17_SchemaFailureLeavesNothing ==
    [][ (/\ last'.op \in {"register", "register_task"}
         /\ last'.err = DataclassMustExtendError)
        => UNCHANGED registryVars ]_vars

\* d2 holds every entry of d1, with the same value.
Extends(d1, d2) ==
    \A k \in DOMAIN d1 : k \in DOMAIN d2 /\ d2[k] = d1[k]

\* C18: the registries only grow.  Once a choice is bound to a class, or to a
\* schema, in a generic registry or in the task registry, every later state
\* has the same binding, whatever setup_registry, register, build and
\* setup_task calls are made; catalogued registries stay catalogued, with the
\* same dictionaries.
C18_AppendOnly ==
    [][ /\ \A n \in DOMAIN REGISTRIES :
               /\ n \in DOMAIN REGISTRIES'
               /\ REGISTRIES'[n].registry = REGISTRIES[n].registry
               /\ REGISTRIES'[n].dataclass_registry
                      = REGISTRIES[n].dataclass_registry
        /\ \A id \in DOMAIN regs :
               /\ id \in DOMAIN regs'
               /\ Extends(regs[id].REGISTRY, regs'[id].REGISTRY)
               /\ Extends(regs[id].DATACLASS_REGISTRY,
                          regs'[id].DATACLASS_REGISTRY)
        /\ Extends(TASK_REGISTRY, TASK_REGISTRY')
        /\ Extends(TASK_DATACLASS_REGISTRY, TASK_DATACLASS_REGISTRY')
      ]_vars

\* A registration of another class under a task name that is bound to a class
\* and a schema, which left the binding in place.
C18_Witness ==
    /\ last.op = "register_task"
    /\ last.name \in DOMAIN TASK_DATACLASS_REGISTRY
    /\ last.cls /= TASK_REGISTRY[last.name]
    /\ issubclass(last.cls, "FairseqTask")
    /\ last.dataclass = None

C19_RegistriesIsolated ==
    [][ /\ last'.op = "register"
           => /\ UNCHANGED <<REGISTRIES, taskVars>>
              /\ DOMAIN regs' = DOMAIN regs
              /\ \A id \in DOMAIN regs : id /= last'.reg => regs'[id] = regs[id]
              /\ regs'[last'.reg].registry_name = regs[last'.reg].registry_name
              /\ \A k \in DOMAIN cs' :
                     k[1] /= regs[last'.reg].registry_name
                         => k \in DOMAIN cs /\ cs'[k] = cs[k]
              /\ last'.name \notin DOMAIN regs[last'.reg].REGISTRY
                     => last'.err \notin {DuplicateChoiceError,
                                          DuplicateClassNameError}
        /\ \A n \in DOMAIN REGISTRIES' :
               /\ REGISTRIES'[n].registry = REGISTRIES'[n].dataclass_registry
               /\ REGISTRIES'[n].registry \in DOMAIN regs'
               /\ regs'[REGISTRIES'[n].registry].registry_name = n
      ]_vars

\* A registration that succeeded in one registry while the other registry
\* holds the same class under the same choice-name.
C19_Witness ==
    /\ last.op = "register"
    /\ last.err = None
    /\ \E id \in DOMAIN regs :
           /\ id /= last.reg
           /\ regs[id].registry_name /= regs[last.reg].registry_name
           /\ last.name \in DOMAIN regs[id].REGISTRY
           /\ regs[id].REGISTRY[last.name] = last.cls

====
